---- MODULE Spec2Model ----
(***************************************************************************)
(* AOS: the entropy-driven reset policy (aos_memory/entropy.py), the       *)
(* distillation engine (aos_memory/odysseus.py), the agent run loop        *)
(* (aos_backend/agent.py) and the backend endpoints that drive them        *)
(* (aos_backend/main.py), over the two tables log_entries and wisdom_items.*)
(*                                                                         *)
(* Strings whose whitespace matters (trace ids) are sequences of one-      *)
(* character strings; long texts (instructions, answers) are represented   *)
(* by their lengths, log messages by their wording, the whitespace around  *)
(* it and their length.                                                    *)
(***************************************************************************)
EXTENDS Integers, Sequences, FiniteSets, TLC

(* ------------------------------ bounds -------------------------------- *)
MaxWrites == 3
MaxServed == 1
MaxProbeLen == 4
MaxCardLogs == 2
MaxTextLen == 12
MaxQueryLogs == 3
MaxPromptLogs == 2

(* -------------------------- program constants ------------------------- *)
MAX_TOKENS == 128000
CRITICAL_ANXIETY == [num |-> 8, den |-> 10]
DefaultWindow == 10
AgentLogger == "aos.agent.sisyphus-01"

(* ------------------------------ strings ------------------------------- *)
RECURSIVE LStrip(_)
LStrip(s) == IF s = <<>> THEN s
             ELSE IF Head(s) = " " THEN LStrip(Tail(s)) ELSE s

RECURSIVE RStrip(_)
RStrip(s) == IF s = <<>> THEN s
             ELSE IF s[Len(s)] = " " THEN RStrip(SubSeq(s, 1, Len(s) - 1)) ELSE s

\* str.strip()
Strip(s) == RStrip(LStrip(s))

\* str.upper() on the level names a client sends
Upper(l) == CASE l = "info" -> "INFO"
              [] l = "warning" -> "WARNING"
              [] l = "error" -> "ERROR"
              [] OTHER -> l

\* format(trace_id, "032x") / uuid4().hex of the n-th span begun
TraceIdOf(n) == <<ToString(n)>>

\* instruction.strip(): an instruction is its padding and its stripped length
StripInstruction(i) == [pad |-> 0, core |-> i.core]

InstructionLen(i) == i.pad + i.core

\* a log message: pad whitespace characters around len characters of text
Text(text, pad, len) == [text |-> text, pad |-> pad, len |-> len]

EmptyText == Text("", 0, 0)

\* message.strip()
StripText(m) == [m EXCEPT !.pad = 0]

\* message[:limit]: the whitespace in front counts
Cut(m, limit) ==
    IF m.pad >= limit THEN Text("", limit, 0)
    ELSE [m EXCEPT !.len = IF m.pad + m.len > limit THEN limit - m.pad ELSE m.len]

(* ------------------------------ inputs -------------------------------- *)
TraceIdInputs == {<<>>, <<" ">>, <<"a">>, <<" ", "a", " ">>, <<"1">>, <<"2">>}
IngestTraceIds == {<<"a">>}
LevelInputs == {"INFO", "error"}
MessageInputs == {Text("disk full", 0, 9)}
LoggerInputs == {"ext.plugin"}
Instructions == {[pad |-> 2, core |-> 0],
                 [pad |-> 1, core |-> 10], [pad |-> 0, core |-> 470000]}
AnswerLens == {20}
MemoryCap == 5998

(* --------------------------- entropy.py ------------------------------- *)
count_tokens_at_least_one(len) == IF len \div 4 = 0 THEN 1 ELSE len \div 4

\* EntropyService.count_tokens, fallback branch (no tiktoken encoder)
count_tokens(len) == len \div 4

\* logs[:window_size]; a negative bound counts from the end
Window(logs, window_size) ==
    LET stop == IF window_size < 0 THEN Len(logs) + window_size ELSE window_size
    IN SubSeq(logs, 1, IF stop < Len(logs) THEN stop ELSE Len(logs))

\* the score loop, in half points: ERROR adds 1.0, WARNING adds 0.5
RECURSIVE Score2(_)
Score2(levels) ==
    IF levels = <<>> THEN 0
    ELSE (CASE Head(levels) = "ERROR" -> 2
            [] Head(levels) = "WARNING" -> 1
            [] OTHER -> 0) + Score2(Tail(levels))

calculate_anxiety_by_window(levels, window_size) ==
    IF levels = <<>> THEN [raised |-> FALSE, num |-> 0, den |-> 1]
    ELSE LET recent == Window(levels, window_size)
             s2 == Score2(recent)
             n == window_size
         IN IF n = 0 THEN [raised |-> TRUE, num |-> 0, den |-> 1]
            ELSE IF s2 > 2 * n THEN [raised |-> FALSE, num |-> 1, den |-> 1]
            ELSE [raised |-> FALSE, num |-> s2, den |-> 2 * n]

\* EntropyService.calculate_anxiety as the fraction num/den (den > 0);
\* a zero-length window divides by zero
calculate_anxiety(levels, window_size) ==
    IF levels = <<>> THEN [raised |-> FALSE, num |-> 0, den |-> 1]
    ELSE LET recent == Window(levels, window_size)
             s2 == Score2(recent)
             n == Len(recent)
         IN IF n = 0 THEN [raised |-> TRUE, num |-> 0, den |-> 1]
            ELSE IF s2 > 2 * n THEN [raised |-> FALSE, num |-> 1, den |-> 1]
            ELSE [raised |-> FALSE, num |-> s2, den |-> 2 * n]

should_reset_swapped(current_tokens, levels) ==
    IF 10 * current_tokens >= 9 * MAX_TOKENS
    THEN TRUE
    ELSE LET anxiety == calculate_anxiety(levels, DefaultWindow)
         IN anxiety.num * CRITICAL_ANXIETY.den > CRITICAL_ANXIETY.num * anxiety.den

\* EntropyService.should_reset
should_reset(current_tokens, levels) ==
    IF 10 * current_tokens > 9 * MAX_TOKENS
    THEN TRUE
    ELSE LET anxiety == calculate_anxiety(levels, DefaultWindow)
         IN anxiety.num * CRITICAL_ANXIETY.den >= CRITICAL_ANXIETY.num * anxiety.den

(* ------------------------------ state --------------------------------- *)
VARIABLES
    log_entries,       \* table log_entries, in insertion (id) order
    wisdom_items,      \* table wisdom_items, in insertion (id) order
    current_trace_id,  \* SisyphusAgent.current_trace_id of the one shared agent
    spans,             \* number of task_execution spans begun so far
    clock,             \* datetime.utcnow(): every reading is later than the one before
    llm,               \* SisyphusAgent.llm is not None
    use_llm,           \* AOS_MEMORY_LLM is truthy
    row_order,         \* order in which the database yields rows it was not asked to order
    returned_for,      \* per trace: the item id the latest distillation returned with
                       \* overwrite=False, 0 after a distillation with overwrite=True
    last,              \* the response to the most recent request served alone
    calls,             \* the requests in flight, one per worker thread
    probe              \* arguments and result of a direct EntropyService call

vars == <<log_entries, wisdom_items, current_trace_id, spans, clock, llm, use_llm,
          row_order, returned_for, last, calls, probe>>

config == <<llm, use_llm, row_order>>

None == <<"None">>

KnownTraces == {Strip(r) : r \in TraceIdInputs} \ {<<>>}

(* ------------------------------ queries ------------------------------- *)
\* rows a precedes b in the database's own order
RowBefore(a, b) == IF row_order = "asc" THEN a.id < b.id ELSE a.id > b.id

\* .order_by(LogEntry.timestamp): ties are left to the database
LogBefore(a, b) ==
    \/ a.timestamp < b.timestamp
    \/ a.timestamp = b.timestamp /\ RowBefore(a, b)

RECURSIVE InsertSorted(_, _)
InsertSorted(e, sorted) ==
    IF sorted = <<>> THEN <<e>>
    ELSE IF LogBefore(e, Head(sorted)) THEN <<e>> \o sorted
    ELSE <<Head(sorted)>> \o InsertSorted(e, Tail(sorted))

RECURSIVE SortLogs(_)
SortLogs(rows) == IF rows = <<>> THEN <<>> ELSE InsertSorted(Head(rows), SortLogs(Tail(rows)))

\* select(LogEntry).where(LogEntry.trace_id == trace_id).order_by(LogEntry.timestamp)
TraceLogs(logs, trace_id) ==
    SortLogs(SelectSeq(logs, LAMBDA e : e.trace_id = trace_id))

FindExistingNone(items, trace_id) == 0

\* select(WisdomItem).where(WisdomItem.source_trace_id == trace_id)).first()
FindExisting(items, trace_id) ==
    LET hits == SelectSeq(items, LAMBDA w : w.source_trace_id = trace_id)
    IN IF hits = <<>> THEN 0
       ELSE IF row_order = "asc" THEN hits[1].id ELSE hits[Len(hits)].id

ItemsOf(items, trace_id) == {i \in 1..Len(items) : items[i].source_trace_id = trace_id}

(* --------------------------- odysseus.py ------------------------------ *)
\* sorted({log.logger_name ...})[0]: the alphabetically smallest logger name
LoggerRank(name) == CASE name = "aos.agent.sisyphus-01" -> 1
                      [] name = "ext.plugin" -> 2
                      [] OTHER -> 3

PrimaryLogger(logs) ==
    LET names == {logs[i].logger_name : i \in 1..Len(logs)} \ {""}
    IN IF names = {} THEN "unknown"
       ELSE CHOOSE n \in names : \A m \in names : LoggerRank(n) <= LoggerRank(m)

ErrorCountWithWarnings(logs) ==
    Cardinality({i \in 1..Len(logs) : logs[i].level \in {"ERROR", "WARNING"}})

\* sum(1 for log in logs if log.level == "ERROR")
ErrorCount(logs) == Cardinality({i \in 1..Len(logs) : logs[i].level = "ERROR"})

Prefix(s, n) == SubSeq(s, 1, IF n < Len(s) THEN n ELSE Len(s))

\* the heuristic fallback: title, content and tags from the ordered logs
HeuristicCard(logs, trace_id) ==
    LET error_count == ErrorCount(logs)
        primary_logger == PrimaryLogger(logs)
        duration_s == IF Len(logs) > 1
                      THEN logs[Len(logs)].timestamp - logs[1].timestamp ELSE 0
    IN IF error_count > 0
       THEN [title |-> <<"Failure Pattern Detected in", primary_logger>>,
             content |-> [trace8 |-> Prefix(trace_id, 8), count |-> error_count,
                          detail |-> Cut(StripText(logs[Len(logs)].message), 120),
                          duration |-> 0],
             tags |-> "bug,error,failure"]
       ELSE [title |-> <<"Successful Execution:", primary_logger>>,
             content |-> [trace8 |-> <<>>, count |-> Len(logs),
                          detail |-> EmptyText, duration |-> duration_s],
             tags |-> "success,performance"]

\* the MemoryCard the LLM answers with for the prompt built from the logs
LlmCard(logs, trace_id) ==
    [title |-> <<"llm card", "">>,
     content |-> [trace8 |-> trace_id, count |-> Len(logs), detail |-> EmptyText, duration |-> 0],
     tags |-> "llm"]

\* the card of the configured summarizer
Card(logs, trace_id) ==
    IF use_llm THEN LlmCard(logs, trace_id) ELSE HeuristicCard(logs, trace_id)

\* WisdomItem(source_trace_id=..., title=..., content=..., tags=...) after add/commit/refresh
NewItem(items, trace_id, card) ==
    [id |-> Len(items) + 1, source_trace_id |-> trace_id,
     title |-> card.title, content |-> card.content, tags |-> card.tags]

StoreItemReplacing(items, wisdom) ==
    Append(SelectSeq(items, LAMBDA w : w.source_trace_id # wisdom.source_trace_id), wisdom)

\* session.add(wisdom); session.commit(); session.refresh(wisdom)
StoreItem(items, wisdom) == Append(items, wisdom)

\* if not trace_id: return None
BlankTrace(trace_id) == trace_id = <<>>

ReturnsExistingNever(overwrite, existing) == FALSE

ReturnsExistingAlways(overwrite, existing) == existing # 0

\* if not overwrite: ... if existing is not None: return existing
ReturnsExisting(overwrite, existing) == ~overwrite /\ existing # 0

NotFoundNever(history) == FALSE

\* if not logs: return None
NotFound(history) == history = <<>>

Returns(kind, item, items, summarized) ==
    [returned |-> kind, item |-> item, items |-> items, summarized |-> summarized]

SummarizerRaisesNever(llm_ok) == FALSE

\* distill_trace_with_llm: agent.run_sync raises when the summarizer fails or
\* is unavailable, and distill_trace has no handler around the call
SummarizerRaises(llm_ok) == use_llm /\ ~llm_ok

\* OdysseusService.distill_trace, run without interruption: what it returns,
\* the table it leaves and whether it ran the summarizer; a failed
\* session.commit() raises and stores nothing
Distill(items, logs, raw, overwrite, llm_ok, commit_ok) ==
    LET trace_id == Strip(raw)
        existing == FindExisting(items, trace_id)
        history == TraceLogs(logs, trace_id)
    IN IF BlankTrace(trace_id) THEN Returns("None", 0, items, 0)
       ELSE IF ReturnsExisting(overwrite, existing) THEN Returns("item", existing, items, 0)
       ELSE IF NotFound(history) THEN Returns("None", 0, items, 0)
       ELSE IF SummarizerRaises(llm_ok) THEN Returns("raised", 0, items, 1)
       ELSE IF ~commit_ok THEN Returns("store_raised", 0, items, 1)
       ELSE LET wisdom == NewItem(items, trace_id, Card(history, trace_id))
            IN Returns("item", wisdom.id, StoreItem(items, wisdom), 1)

LogsLeftPurged(logs, raw) == SelectSeq(logs, LAMBDA e : e.trace_id # Strip(raw))

\* table log_entries after distill_trace: its sessions only select from it
\* (odysseus.py 74-79, memory_cards.py 110-117)
LogsLeft(logs, raw) == logs

\* what the latest distillation of a trace returned with overwrite=False
NoteReturn(raw, overwrite, d) ==
    LET trace_id == Strip(raw)
    IN IF trace_id \notin DOMAIN returned_for THEN returned_for
       ELSE IF overwrite THEN [returned_for EXCEPT ![trace_id] = 0]
       ELSE IF d.returned = "item" THEN [returned_for EXCEPT ![trace_id] = d.item]
       ELSE returned_for

(* ----------------------------- agent.py -------------------------------- *)
\* LogEntry(...) as _save_agent_log and ingest_logs build it; call is the
\* number of the task_execution span that wrote the row (0: the ingestion endpoint)
LogRow(logs, trace_id, level, logger_name, message, timestamp, call) ==
    [id |-> Len(logs) + 1, trace_id |-> trace_id, level |-> level,
     logger_name |-> logger_name, message |-> message,
     timestamp |-> timestamp, call |-> call]

\* the fixed wording of an agent message; what follows it is left out
AgentText(message) == Text(message, 0, IF message = "agent.done" THEN 10 ELSE 11)

\* _save_agent_log: nothing is written without a trace id
SaveAgentLog(logs, trace_id, message, level, timestamp, call) ==
    IF trace_id = None \/ trace_id = <<>> THEN logs
    ELSE Append(logs, LogRow(logs, trace_id, level, AgentLogger, AgentText(message),
                             timestamp, call))

\* len(_format_wisdom(get_all_wisdom(limit=6))): empty without cards, else
\* between one short block and the max_chars cut
MemoryLens(items) == IF items = <<>> THEN {0} ELSE {60, MemoryCap}

\* len("\n".join(parts)) for parts of the given lengths
RECURSIVE JoinLen(_)
JoinLen(lens) == IF lens = <<>> THEN 0
                 ELSE IF Len(lens) = 1 THEN lens[1]
                 ELSE lens[1] + 1 + JoinLen(Tail(lens))

NoResult == [status |-> "-", has_trace |-> FALSE, trace_id |-> None,
             agent_state |-> "-", entropy |-> -1, answer |-> "-"]

\* return {"status": "error", "error": "empty instruction"}
EmptyInstructionResult == [NoResult EXCEPT !.status = "error"]

NoLlmResultAsError(trace_id, instruction_len, memory_len) ==
    [status |-> "error", has_trace |-> TRUE, trace_id |-> trace_id,
     agent_state |-> "ERROR", entropy |-> -1, answer |-> "-"]

\* the NoLLM stub response
NoLlmResult(trace_id, instruction_len, memory_len) ==
    [status |-> "completed", has_trace |-> TRUE, trace_id |-> trace_id,
     agent_state |-> "NoLLM",
     entropy |-> count_tokens(JoinLen(<<instruction_len, memory_len>>)),
     answer |-> "LLM is not configured"]

StableResultLostTrace(trace_id, instruction_len, memory_len, answer_len) ==
    [status |-> "completed", has_trace |-> TRUE, trace_id |-> None,
     agent_state |-> "Stable",
     entropy |-> count_tokens(JoinLen(<<instruction_len, memory_len, answer_len>>)),
     answer |-> "output.answer"]

\* the response after llm.run_sync answered
StableResult(trace_id, instruction_len, memory_len, answer_len) ==
    [status |-> "completed", has_trace |-> TRUE, trace_id |-> trace_id,
     agent_state |-> "Stable",
     entropy |-> count_tokens(JoinLen(<<instruction_len, memory_len, answer_len>>)),
     answer |-> "output.answer"]

ErrorResultNoTrace(trace_id) ==
    [status |-> "error", has_trace |-> FALSE, trace_id |-> None,
     agent_state |-> "ERROR", entropy |-> -1, answer |-> "-"]

\* the response after llm.run_sync raised
ErrorResult(trace_id) ==
    [status |-> "error", has_trace |-> TRUE, trace_id |-> trace_id,
     agent_state |-> "ERROR", entropy |-> -1, answer |-> "-"]

SaveErrorAsInfo(logs, trace_id, timestamp, call) ==
    SaveAgentLog(logs, trace_id, "agent.error", "INFO", timestamp, call)

\* _save_agent_log(..., f"agent.error {exc}", level="ERROR")
SaveError(logs, trace_id, timestamp, call) ==
    SaveAgentLog(logs, trace_id, "agent.error", "ERROR", timestamp, call)

\* the commits of a request that meets no persistence failure
AllCommit == <<TRUE, TRUE, TRUE>>

\* SisyphusAgent.run_task, run without interruption: the rows it leaves in
\* log_entries, the agent's current_trace_id and the result dictionary, or the
\* exception it lets through (raised). commits[k] tells whether the k-th
\* session.commit() of the call succeeds; a failed commit raises out of
\* _save_agent_log and stores no row.
RunTask(instruction, act_ok, answer_len, memory_len, now, commits) ==
    LET stripped == StripInstruction(instruction)
        call == spans + 1
        trace_id == TraceIdOf(call)
        Ran(act, logs, k, failures, result) ==
            [began |-> TRUE, raised |-> FALSE, act |-> act, logs |-> logs,
             readings |-> k, failures |-> failures, trace_id |-> trace_id,
             result |-> result]
        Raised(act, logs, k, failures) ==
            [began |-> TRUE, raised |-> TRUE, act |-> act, logs |-> logs,
             readings |-> k, failures |-> failures, trace_id |-> trace_id,
             result |-> NoResult]
        \* except Exception: save agent.error as the k-th commit, return the error
        Handler(act, logs, k, failures) ==
            IF commits[k]
            THEN Ran(act, SaveError(logs, trace_id, now + k - 1, call), k, failures,
                     ErrorResult(trace_id))
            ELSE Raised(act, logs, k, failures + 1)
    IN IF InstructionLen(stripped) = 0
       THEN [began |-> FALSE, raised |-> FALSE, act |-> "none", logs |-> log_entries,
             readings |-> 0, failures |-> 0, trace_id |-> current_trace_id,
             result |-> EmptyInstructionResult]
       ELSE IF ~llm
       THEN IF commits[1]
            THEN Ran("none",
                     SaveAgentLog(log_entries, trace_id, "agent.nollm", "WARN", now, call),
                     1, 0, NoLlmResult(trace_id, InstructionLen(stripped), memory_len))
            ELSE Raised("none", log_entries, 1, 1)
       ELSE IF ~commits[1]
       THEN Handler("none", log_entries, 2, 1)
       ELSE LET started == SaveAgentLog(log_entries, trace_id, "agent.start", "INFO",
                                        now, call)
            IN IF ~act_ok THEN Handler("raised", started, 2, 0)
               ELSE IF ~commits[2] THEN Handler("ok", started, 3, 1)
               ELSE Ran("ok",
                        SaveAgentLog(started, trace_id, "agent.done", "INFO",
                                     now + 1, call),
                        2, 0,
                        StableResult(trace_id, InstructionLen(stripped),
                                     memory_len, answer_len))

(* ------------------------------ main.py -------------------------------- *)
NoResponse == [op |-> "none", raw |-> <<>>, overwrite |-> FALSE, consolidate |-> FALSE,
               act |-> "none", returned |-> "-", item |-> 0, summarized |-> 0,
               http |-> 0, ingested |-> 0, store_failures |-> 0, limit |-> 0,
               items |-> <<>>, summarizer_ok |-> TRUE, result |-> NoResult]

\* a TelemetryEvent; timestamp -1: the client gave none
Events == [level : LevelInputs, logger_name : LoggerInputs, message : MessageInputs,
           trace_id : IngestTraceIds, timestamp : {-1}]

\* the rows ingest_logs adds for a batch of events
RECURSIVE IngestRows(_, _, _)
IngestRows(logs, events, now) ==
    IF events = <<>> THEN logs
    ELSE LET e == Head(events)
             row == LogRow(logs, e.trace_id, Upper(e.level), e.logger_name, e.message,
                           IF e.timestamp = -1 THEN now ELSE e.timestamp, 0)
         IN IngestRows(Append(logs, row), Tail(events),
                       IF e.timestamp = -1 THEN now + 1 ELSE now)

\* the number of utcnow() readings ingest_logs takes for a batch
RECURSIVE Readings(_)
Readings(events) ==
    IF events = <<>> THEN 0
    ELSE (IF Head(events).timestamp = -1 THEN 1 ELSE 0) + Readings(Tail(events))

Ingested(logs) == Cardinality({i \in 1..Len(logs) : logs[i].call = 0})

\* ingested events, tasks begun and items stored so far
Writes == Ingested(log_entries) + spans + Len(wisdom_items)

\* POST /api/v1/telemetry/logs
ingest_logs(events) ==
    /\ Writes + Len(events) <= MaxWrites
    /\ log_entries' = IngestRows(log_entries, events, clock)
    /\ clock' = clock + Readings(events)
    /\ last' = [NoResponse EXCEPT !.op = "ingest", !.http = 200, !.ingested = Len(events)]
    /\ UNCHANGED <<wisdom_items, current_trace_id, spans, config, returned_for, calls, probe>>

\* the HTTP status of a distillation outcome
Status(returned) == IF returned \in {"raised", "store_raised"} THEN 500
                    ELSE IF returned = "None" THEN 404 ELSE 200

\* whether the summarizer answered, for a request that ran it
SummarizerOk(d, llm_ok) == d.summarized = 0 \/ ~use_llm \/ llm_ok

\* the commits of the request that failed
StoreFailures(r, d) == r.failures + (IF d.returned = "store_raised" THEN 1 ELSE 0)

\* POST /api/v1/memory/consolidate
consolidate_memory(raw, overwrite, llm_ok, commit_ok) ==
    \E d \in {Distill(wisdom_items, log_entries, raw, overwrite, llm_ok, commit_ok)} :
       /\ Writes + (Len(d.items) - Len(wisdom_items)) <= MaxWrites
       /\ wisdom_items' = d.items
       /\ returned_for' = NoteReturn(raw, overwrite, d)
       /\ log_entries' = LogsLeft(log_entries, raw)
       /\ last' = [NoResponse EXCEPT !.op = "consolidate", !.raw = raw,
                      !.overwrite = overwrite, !.returned = d.returned, !.item = d.item,
                      !.summarized = d.summarized, !.http = Status(d.returned),
                      !.summarizer_ok = SummarizerOk(d, llm_ok),
                      !.store_failures = StoreFailures([failures |-> 0], d)]
       /\ UNCHANGED <<current_trace_id, spans, clock, config, calls, probe>>

HasTraceIdNever(result) == FALSE

\* if isinstance(trace_id, str) and trace_id.strip()
HasTraceId(result) == result.has_trace /\ Strip(result.trace_id) # <<>>

NotDistilled(items) == Returns("-", 0, items, 0)

\* POST /api/v1/agent/task
run_agent_task(instruction, consolidate, act_ok, answer_len, memory_len, llm_ok, commits, commit_ok) ==
    \E r \in {RunTask(instruction, act_ok, answer_len, memory_len, clock, commits)} :
    \E distills \in {~r.raised /\ consolidate /\ HasTraceId(r.result)} :
    \E d \in {IF distills
              THEN Distill(wisdom_items, r.logs, r.result.trace_id, FALSE, llm_ok, commit_ok)
              ELSE NotDistilled(wisdom_items)} :
       /\ Writes + (IF r.began THEN 1 ELSE 0) + (Len(d.items) - Len(wisdom_items))
              <= MaxWrites
       /\ log_entries' = IF distills THEN LogsLeft(r.logs, r.result.trace_id) ELSE r.logs
       /\ current_trace_id' = r.trace_id
       /\ spans' = IF r.began THEN spans + 1 ELSE spans
       /\ clock' = clock + r.readings
       /\ wisdom_items' = d.items
       /\ returned_for' = IF distills THEN NoteReturn(r.result.trace_id, FALSE, d)
                          ELSE returned_for
       /\ last' = [NoResponse EXCEPT !.op = "task", !.consolidate = consolidate,
                      !.act = r.act, !.returned = d.returned, !.item = d.item,
                      !.summarized = d.summarized,
                      !.summarizer_ok = SummarizerOk(d, llm_ok),
                      !.http = IF r.raised \/ Status(d.returned) = 500 THEN 500 ELSE 200,
                      !.store_failures = StoreFailures(r, d),
                      !.result = r.result]
       /\ UNCHANGED <<config, calls, probe>>

(* ---------------------------- specification ---------------------------- *)
Threads == {1, 2}

\* a worker thread's request: where it stands and its local variables
IdleCall == [pc |-> "idle", served |-> 0, op |-> "none", call |-> 0, raw |-> <<>>,
             consolidate |-> FALSE, instruction_len |-> 0, memory_len |-> 0,
             card |-> <<>>, returned |-> "-", item |-> 0, result |-> NoResult]

NoAnxiety == [raised |-> FALSE, num |-> 0, den |-> 1]

NoProbe == [called |-> FALSE, tokens |-> 0, levels |-> <<>>, window_size |-> DefaultWindow,
            events |-> <<>>, result |-> FALSE, anxiety |-> NoAnxiety, card |-> <<>>]

Init ==
    /\ log_entries = <<>>
    /\ wisdom_items = <<>>
    /\ current_trace_id = None
    /\ spans = 0
    /\ clock = 0
    /\ llm \in BOOLEAN
    /\ use_llm \in BOOLEAN
    /\ row_order \in {"asc", "desc"}
    /\ returned_for = [t \in KnownTraces |-> 0]
    /\ last = NoResponse
    /\ calls = [c \in Threads |-> IdleCall]
    /\ probe = NoProbe

Batches == {<<e>> : e \in Events}

\* whether the LLM summarizer answers (TRUE) or raises; it only runs in LLM mode
SummarizerOutcomes == IF use_llm THEN BOOLEAN ELSE {TRUE}

\* whether llm.run_sync answers (TRUE) or raises; it only runs when configured
ActOutcomes == IF llm THEN BOOLEAN ELSE {TRUE}

Ingest == \E events \in Batches : ingest_logs(events)

Consolidate(overwrites) ==
    \E raw \in TraceIdInputs, overwrite \in overwrites, llm_ok \in SummarizerOutcomes :
        consolidate_memory(raw, overwrite, llm_ok, TRUE)

\* the inputs a task request reads: an empty instruction returns before the
\* backend, the memory and the summarizer are used; the memory length enters
\* the result only when no exception is handled; the summarizer runs only on
\* consolidate=true
ActInputs(instruction) ==
    IF InstructionLen(StripInstruction(instruction)) = 0 THEN {TRUE} ELSE ActOutcomes

MemoryInputs(instruction, act_ok) ==
    IF InstructionLen(StripInstruction(instruction)) = 0 \/ ~act_ok THEN {0}
    ELSE MemoryLens(wisdom_items)

SummarizerInputs(instruction, consolidate) ==
    IF InstructionLen(StripInstruction(instruction)) = 0 \/ ~consolidate THEN {TRUE}
    ELSE SummarizerOutcomes

Task ==
    \E instruction \in Instructions, consolidate \in BOOLEAN :
      \E act_ok \in ActInputs(instruction), answer_len \in AnswerLens,
         llm_ok \in SummarizerInputs(instruction, consolidate) :
        \E memory_len \in MemoryInputs(instruction, act_ok) :
          run_agent_task(instruction, consolidate, act_ok, answer_len, memory_len, llm_ok,
                         AllCommit, TRUE)

\* requests served one at a time
Next == Ingest \/ Consolidate(BOOLEAN) \/ Task

Spec == Init /\ [][Next]_vars

\* requests served one at a time, none of them asking for overwrite
NextDefault == Ingest \/ Consolidate({FALSE}) \/ Task

SpecDefault == Init /\ [][NextDefault]_vars

(* -------------------------------- claims ------------------------------- *)
\* the distill_trace call a response reports: its stripped trace id and flag
DistilledTrace(resp) ==
    IF resp.op = "consolidate" THEN Strip(resp.raw) ELSE resp.result.trace_id

CalledDistill(resp) ==
    \/ resp.op = "consolidate"
    \/ resp.op = "task" /\ resp.returned # "-"

Ids(items) == {items[i].id : i \in 1..Len(items)}

RowsOf(logs, trace_id) == {i \in 1..Len(logs) : logs[i].trace_id = trace_id}

ErrorRowsOf(logs, trace_id) == {i \in RowsOf(logs, trace_id) : logs[i].level = "ERROR"}

\* C1: a distill_trace(t, overwrite=False) call that follows another one for
\* the same trace, with no overwrite call in between, returns the item id the
\* earlier call returned, stores nothing and does not run the summarizer,
\* whatever was logged in between.
C1_SecondDistillReturnsSame ==
    [][\A t \in KnownTraces :
         (/\ CalledDistill(last')
          /\ ~last'.overwrite
          /\ DistilledTrace(last') = t
          /\ returned_for[t] # 0)
         => /\ last'.returned = "item"
            /\ last'.item = returned_for[t]
            /\ wisdom_items' = wisdom_items
            /\ last'.summarized = 0]_vars

\* C1 witness: the second call returned the first call's item although the
\* trace has more log events now than the item summarises
C1_Witness ==
    /\ last.op = "consolidate"
    /\ ~last.overwrite
    /\ ~use_llm
    /\ last.summarized = 0
    /\ \E t \in KnownTraces :
          /\ Strip(last.raw) = t
          /\ last.item = returned_for[t]
          /\ last.item # 0
          /\ wisdom_items[last.item].tags = "success,performance"
          /\ wisdom_items[last.item].content.count < Cardinality(RowsOf(log_entries, t))

\* C3: without overwrite=True and without overlapping requests, no trace id
\* has more than one WisdomItem.
C3_AtMostOneItemPerTrace ==
    \A t \in KnownTraces : Cardinality(ItemsOf(wisdom_items, t)) <= 1

\* C3 witness: a task trace distilled by its own request was distilled again
\* by a consolidate request and still has one item
C3_Witness ==
    /\ last.op = "consolidate"
    /\ last.returned = "item"
    /\ last.summarized = 0
    /\ \E i \in RowsOf(log_entries, Strip(last.raw)) : log_entries[i].call # 0
    /\ Cardinality(ItemsOf(wisdom_items, Strip(last.raw))) = 1

\* most-recent-first levels of a trace's log events
RECURSIVE Reverse(_)
Reverse(q) == IF q = <<>> THEN <<>> ELSE Append(Reverse(Tail(q)), Head(q))

RecentLevels(logs, trace_id) ==
    LET history == TraceLogs(logs, trace_id)
    IN Reverse([i \in 1..Len(history) |-> history[i].level])

\* C4: a run_task call at whose end the Reset Policy holds for its cost and
\* its trace's recent events returns state Reset and leaves a WisdomItem for
\* its trace id.
C4_ResetDistills ==
    (/\ last.op = "task"
     /\ last.result.has_trace
     /\ last.result.entropy >= 0
     /\ should_reset(last.result.entropy,
                     RecentLevels(log_entries, last.result.trace_id)))
    => /\ last.result.agent_state = "Reset"
       /\ ItemsOf(wisdom_items, last.result.trace_id) # {}

\* C7: distill_trace(t, overwrite=True) on a trace that already has an item
\* never answers with a stored item or None: when the summarizer answers it
\* stores and returns an item with a new id that summarises the trace's
\* current log events, and the heuristic summarizer always answers.
C7_OverwriteMakesNewItem ==
    [][\A t \in KnownTraces :
         (/\ last'.op = "consolidate"
          /\ last'.overwrite
          /\ Strip(last'.raw) = t
          /\ ItemsOf(wisdom_items, t) # {})
         => /\ last'.returned \in {"item", "raised"}
            /\ last'.summarized = 1
            /\ ~use_llm => last'.returned = "item"
            /\ last'.returned = "raised" => wisdom_items' = wisdom_items
            /\ last'.returned = "item" =>
                  /\ last'.item \notin Ids(wisdom_items)
                  /\ Len(wisdom_items') = Len(wisdom_items) + 1
                  /\ SubSeq(wisdom_items', 1, Len(wisdom_items)) = wisdom_items
                  /\ LET new == wisdom_items'[Len(wisdom_items')]
                         errors == Cardinality(ErrorRowsOf(log_entries, t))
                     IN /\ new.id = last'.item
                        /\ new.source_trace_id = t
                        /\ new.content.count =
                              IF use_llm \/ errors = 0
                              THEN Cardinality(RowsOf(log_entries, t)) ELSE errors]_vars

\* C7 witness: an overwrite call ran the summarizer and returned a second
\* item for a trace that already had one
C7_Witness ==
    /\ last.op = "consolidate"
    /\ last.overwrite
    /\ last.returned = "item"
    /\ last.summarized = 1
    /\ \E t \in KnownTraces :
          /\ Strip(last.raw) = t
          /\ Cardinality(ItemsOf(wisdom_items, t)) = 2
          /\ last.item = 2

\* C8: distill_trace on a non-blank trace id without log events and without
\* an item returns None (HTTP 404), raises nothing and stores nothing.
C8_NoLogsNotFound ==
    [][\A t \in KnownTraces :
         (/\ last'.op = "consolidate"
          /\ Strip(last'.raw) = t
          /\ RowsOf(log_entries, t) = {}
          /\ ItemsOf(wisdom_items, t) = {})
         => /\ last'.returned = "None"
            /\ last'.http = 404
            /\ last'.summarized = 0
            /\ wisdom_items' = wisdom_items
            /\ log_entries' = log_entries]_vars

\* C8 witness: a not-found answer for a padded, non-blank trace id while other
\* traces have log events
C8_Witness ==
    /\ last.op = "consolidate"
    /\ last.returned = "None"
    /\ last.http = 404
    /\ Strip(last.raw) # <<>>
    /\ Strip(last.raw) # last.raw
    /\ RowsOf(log_entries, Strip(last.raw)) = {}
    /\ log_entries # <<>>

\* C9: distill_trace with an empty or whitespace-only trace id answers with an
\* invalid-input error that differs from the not-found answer.
C9_BlankIsInvalidInput ==
    (last.op = "consolidate" /\ Strip(last.raw) = <<>>)
    => (last.returned # "None" /\ last.http # 404)

\* C10: when llm.run_sync raises, run_task stores an ERROR event under the
\* trace id of its span and returns status error, agent_state ERROR and that
\* trace id; distilling a trace that holds such an event never answers None
\* and stores an item whenever the summarizer answers.
C10_ExecutionFailureKeepsTrace ==
    [][/\ (last'.op = "task" /\ last'.act = "raised")
          => /\ last'.result.status = "error"
             /\ last'.result.agent_state = "ERROR"
             /\ last'.result.has_trace
             /\ last'.result.trace_id = TraceIdOf(spans')
             /\ last'.result.trace_id # <<>>
             /\ Len(log_entries') = Len(log_entries) + 2
             /\ LET row == log_entries'[Len(log_entries')]
                IN /\ row.level = "ERROR"
                   /\ row.trace_id = last'.result.trace_id
                   /\ row.call = spans'
       /\ \A t \in KnownTraces :
            (/\ CalledDistill(last')
             /\ DistilledTrace(last') = t
             /\ \E i \in ErrorRowsOf(log_entries', t) : log_entries'[i].call # 0)
            => /\ last'.returned \in {"item", "raised"}
               /\ ~use_llm => last'.returned = "item"
               /\ last'.returned = "item" =>
                     /\ last'.item \in Ids(wisdom_items')
                     /\ wisdom_items'[last'.item].source_trace_id = t]_vars

\* C10 witness: a task whose execution raised, followed by a separate
\* distillation of its trace that stored a failure card
C10_Witness ==
    /\ last.op = "consolidate"
    /\ last.returned = "item"
    /\ last.summarized = 1
    /\ ~use_llm
    /\ \E i \in 1..Len(log_entries) :
          /\ log_entries[i].level = "ERROR"
          /\ log_entries[i].call # 0
          /\ log_entries[i].trace_id = Strip(last.raw)
    /\ wisdom_items[last.item].tags = "bug,error,failure"

\* the Reset Policy is false for the cost and the trace of a task response
CalmTask(resp, logs) ==
    /\ resp.op = "task"
    /\ resp.result.has_trace
    /\ resp.result.entropy >= 0
    /\ ErrorRowsOf(logs, resp.result.trace_id) = {}
    /\ ~should_reset(resp.result.entropy, RecentLevels(logs, resp.result.trace_id))

\* C14 as stated: every run_task call for which the Reset Policy is false
\* returns state Stable with a non-empty trace id and creates no WisdomItem.
C14_CalmTaskIsStable ==
    CalmTask(last, log_entries)
    => /\ last.result.agent_state = "Stable"
       /\ last.result.trace_id # <<>>
       /\ ~last.consolidate => ItemsOf(wisdom_items, last.result.trace_id) = {}

\* C14 amended: with an execution backend configured, a run_task call for which
\* the Reset Policy is false returns status completed and state Stable with
\* the non-empty trace id of its span, and distils nothing of its own: the
\* wisdom store changes only when the request asked for consolidation.
C14_CalmTaskWithBackendIsStable ==
    [][(llm /\ CalmTask(last', log_entries'))
       => /\ last'.act = "ok"
          /\ last'.result.status = "completed"
          /\ last'.result.agent_state = "Stable"
          /\ last'.result.trace_id = TraceIdOf(spans')
          /\ last'.result.trace_id # <<>>
          /\ spans' = spans + 1
          /\ last'.returned # "-" => last'.consolidate
          /\ ~last'.consolidate => wisdom_items' = wisdom_items]_vars

\* C14 witness: a small task answered by the backend while the wisdom store
\* holds an item of another trace, and no item for the task's trace
C14_Witness ==
    /\ llm
    /\ CalmTask(last, log_entries)
    /\ ~last.consolidate
    /\ last.result.agent_state = "Stable"
    /\ last.result.entropy < 100
    /\ wisdom_items # <<>>
    /\ ItemsOf(wisdom_items, last.result.trace_id) = {}

\* C15: run_agent_task with consolidate=true calls distill_trace on the trace
\* id run_task returned, and in heuristic mode an item for that trace id is
\* stored when the request returns; with consolidate=false, or without a trace
\* id in the result, distill_trace is not called and the wisdom store is left
\* as it was.
C15_TaskConsolidates ==
    [][last'.op = "task"
       => IF last'.consolidate /\ last'.result.has_trace
          THEN /\ CalledDistill(last')
               /\ ~use_llm =>
                     /\ last'.returned = "item"
                     /\ last'.item \in ItemsOf(wisdom_items', last'.result.trace_id)
                     /\ Len(wisdom_items') = Len(wisdom_items) + 1
          ELSE /\ ~CalledDistill(last')
               /\ wisdom_items' = wisdom_items]_vars

\* C15 witness: a consolidating task without execution backend left the
\* heuristic card of its own trace
C15_Witness ==
    /\ last.op = "task"
    /\ last.consolidate
    /\ ~use_llm
    /\ last.result.agent_state = "NoLLM"
    /\ last.returned = "item"
    /\ wisdom_items[last.item].source_trace_id = last.result.trace_id
    /\ wisdom_items[last.item].content.count = 1

\* the other cases are reached as well: a consolidating request with an empty
\* instruction, and a request that did not ask for consolidation
C15_OtherCases ==
    /\ last.op = "task"
    /\ last.returned = "-"
    /\ wisdom_items # <<>>
    /\ \/ last.consolidate /\ ~last.result.has_trace
       \/ ~last.consolidate /\ last.result.has_trace

\* C17: without an execution backend a run_task call past the
\* empty-instruction check does not run the execution capability, stores one
\* log event under the trace id of its span and returns status completed,
\* agent_state NoLLM, that trace id and the stub answer.
C17_NoBackendStub ==
    [][(last'.op = "task" /\ ~llm /\ spans' # spans)
       => /\ last'.act = "none"
          /\ last'.result.status = "completed"
          /\ last'.result.agent_state = "NoLLM"
          /\ last'.result.answer = "LLM is not configured"
          /\ last'.result.has_trace
          /\ last'.result.trace_id = TraceIdOf(spans')
          /\ last'.result.trace_id # <<>>
          /\ Len(log_entries') = Len(log_entries) + 1
          /\ SubSeq(log_entries', 1, Len(log_entries)) = log_entries
          /\ LET row == log_entries'[Len(log_entries')]
             IN /\ row.trace_id = last'.result.trace_id
                /\ row.call = spans'
                /\ row.message.text = "agent.nollm"]_vars

\* C17 witness: the stub response of a second task, with its event stored
\* after the events of the first
C17_Witness ==
    /\ ~llm
    /\ last.op = "task"
    /\ last.result.agent_state = "NoLLM"
    /\ spans = 2
    /\ Len(log_entries) >= 2
    /\ log_entries[Len(log_entries)].trace_id = last.result.trace_id
    /\ log_entries[Len(log_entries)].level = "WARN"

\* C18: distill_trace leaves every stored log event as it was, whether it
\* returns the existing item, a new item or None: a consolidate request leaves
\* log_entries unchanged, and a consolidating task request leaves the earlier
\* rows followed by the rows its run_task stored.
C18_DistillKeepsLogs ==
    [][CalledDistill(last')
       => IF last'.op = "consolidate"
          THEN log_entries' = log_entries
          ELSE /\ SubSeq(log_entries', 1, Len(log_entries)) = log_entries
               /\ Len(log_entries') = Len(log_entries) + (IF llm THEN 2 ELSE 1)
               /\ \A i \in Len(log_entries) + 1..Len(log_entries') :
                     log_entries'[i].trace_id = last'.result.trace_id]_vars

\* C18 witness: a new item was stored for a trace whose log events are all
\* still present
C18_Witness ==
    /\ last.op = "consolidate"
    /\ last.returned = "item"
    /\ last.summarized = 1
    /\ wisdom_items[last.item].tags = "success,performance"
    /\ Cardinality(RowsOf(log_entries, Strip(last.raw))) = 2
    /\ wisdom_items[last.item].content.count = 2

\* the other outcomes are reached with log events in the store: the existing
\* item returned, and None
C18_OtherCases ==
    /\ last.op = "consolidate"
    /\ log_entries # <<>>
    /\ \/ last.returned = "item" /\ last.summarized = 0
       \/ last.returned = "None"

\* C23: when the summarizer fails or is unavailable during a distillation in
\* LLM mode, the caller gets the failure (the call raises, HTTP 500) and the
\* table of wisdom items is left exactly as it was: no item, heuristic or
\* fabricated, is stored for the trace.
C23_SummarizerFailureSurfaces ==
    [][(last'.op \in {"consolidate", "task"} /\ ~last'.summarizer_ok)
        => /\ last'.returned = "raised"
           /\ last'.http = 500
           /\ last'.item = 0
           /\ wisdom_items' = wisdom_items]_vars

\* a re-distillation with overwrite whose summarizer failed, on a trace that
\* keeps its earlier item
C23_Witness ==
    /\ use_llm
    /\ last.op = "consolidate"
    /\ last.overwrite
    /\ ~last.summarizer_ok
    /\ last.http = 500
    /\ ItemsOf(wisdom_items, Strip(last.raw)) # {}

\* a consolidating task whose summarizer failed
C23_OtherCases ==
    /\ use_llm
    /\ last.op = "task"
    /\ ~last.summarizer_ok
    /\ last.http = 500
    /\ wisdom_items = <<>>

\* C24: every stored log event, written by the run loop or ingested, has a
\* severity level in {INFO, WARNING, ERROR}.
C24_LevelsEnumerated ==
    \A i \in 1..Len(log_entries) : log_entries[i].level \in {"INFO", "WARNING", "ERROR"}

(* ----------------------- direct EntropyService calls ------------------- *)
TokenInputs == {0, 500, 64000, 115200, 115201, 200000}

Levels == {"INFO", "WARNING", "ERROR"}

Repeat(level, n) == [i \in 1..n |-> level]

BlockSizes == {0, 1, 2, 8, 9}

\* log windows: every short sequence, and runs of equal levels long enough
\* to fill the 10-event window, most recent first
ProbeLists ==
    UNION {[1..n -> Levels] : n \in 0..MaxProbeLen}
    \cup {Repeat(a, m) \o Repeat(b, n) \o Repeat("INFO", k) :
             a \in {"ERROR", "WARNING"}, b \in Levels, m \in BlockSizes,
             n \in BlockSizes, k \in BlockSizes}

\* a fresh service and the arguments of the call to come
InitEntropy ==
    /\ log_entries = <<>>
    /\ wisdom_items = <<>>
    /\ current_trace_id = None
    /\ spans = 0
    /\ clock = 0
    /\ llm = TRUE /\ use_llm = FALSE /\ row_order = "asc"
    /\ returned_for = [t \in KnownTraces |-> 0]
    /\ last = NoResponse
    /\ calls = [c \in Threads |-> IdleCall]
    /\ probe \in [called : {FALSE}, tokens : TokenInputs, levels : ProbeLists,
                   window_size : {DefaultWindow}, events : {<<>>}, result : {FALSE},
                   anxiety : {NoAnxiety}, card : {<<>>}]

\* service.should_reset(current_tokens=..., recent_logs=...)
CallShouldReset ==
    /\ ~probe.called
    /\ probe' = [probe EXCEPT !.called = TRUE,
                              !.result = should_reset(probe.tokens, probe.levels)]
    /\ UNCHANGED <<log_entries, wisdom_items, current_trace_id, spans, clock, config,
                   returned_for, last, calls>>

NextEntropy == CallShouldReset

SpecEntropy == InitEntropy /\ [][NextEntropy]_vars

Count(levels, level, n) == Cardinality({i \in 1..n : levels[i] = level})

\* anxiety >= 0.8 over the first ten events, counted directly
Panic(levels) ==
    LET n == IF Len(levels) < 10 THEN Len(levels) ELSE 10
    IN /\ n > 0
       /\ 10 * Count(levels, "ERROR", n) + 5 * Count(levels, "WARNING", n) >= 8 * n

\* C5: should_reset is true exactly when current_tokens > 0.9 * MAX_TOKENS or
\* the anxiety of the recent events is at least 0.8.
C5_ShouldResetIsEitherTrigger ==
    probe.called
    => probe.result = (\/ 10 * probe.tokens > 9 * 128000
                       \/ Panic(probe.levels))

\* C5 witness: the panic trigger alone, at low cost on 9 ERROR then 1 INFO
C5_Witness ==
    /\ probe.called
    /\ probe.result = TRUE
    /\ probe.tokens = 500
    /\ probe.levels = Repeat("ERROR", 9) \o <<"INFO">>

\* the token trigger alone on a calm window, and neither trigger at the edge
\* of both, are reached as well
C5_OtherCases ==
    \/ /\ probe.called /\ probe.result = TRUE
       /\ probe.tokens = 115201
       /\ probe.levels = <<"INFO", "INFO">>
    \/ /\ probe.called /\ probe.result = FALSE
       /\ probe.tokens = 115200
       /\ probe.levels = <<"ERROR", "WARNING", "WARNING", "INFO">>

WindowInputs == {0, 1, 2, 3, 10, 11}

\* a fresh service and the arguments of the calculate_anxiety call to come
InitAnxiety ==
    /\ log_entries = <<>>
    /\ wisdom_items = <<>>
    /\ current_trace_id = None
    /\ spans = 0
    /\ clock = 0
    /\ llm = TRUE /\ use_llm = FALSE /\ row_order = "asc"
    /\ returned_for = [t \in KnownTraces |-> 0]
    /\ last = NoResponse
    /\ calls = [c \in Threads |-> IdleCall]
    /\ probe \in [called : {FALSE}, tokens : {0}, levels : ProbeLists,
                   window_size : WindowInputs, events : {<<>>}, result : {FALSE},
                   anxiety : {NoAnxiety}, card : {<<>>}]

\* service.calculate_anxiety(logs, window_size)
CallCalculateAnxiety ==
    /\ ~probe.called
    /\ probe' = [probe EXCEPT !.called = TRUE,
                              !.anxiety = calculate_anxiety(probe.levels,
                                                            probe.window_size)]
    /\ UNCHANGED <<log_entries, wisdom_items, current_trace_id, spans, clock, config,
                   returned_for, last, calls>>

NextAnxiety == CallCalculateAnxiety

SpecAnxiety == InitAnxiety /\ [][NextAnxiety]_vars

Min(a, b) == IF a < b THEN a ELSE b

C12_Examples ==
    /\ probe.called
    /\ probe.window_size = 10
    /\ \/ probe.levels = Repeat("ERROR", 8) \o Repeat("INFO", 2)
          /\ probe.anxiety.num * 10 = 8 * probe.anxiety.den
       \/ probe.levels = Repeat("ERROR", 9) \o Repeat("ERROR", 1)
          /\ probe.anxiety.num = probe.anxiety.den
       \/ probe.levels = <<>> /\ probe.anxiety.num = 0

\* C13: calculate_anxiety raises nothing and returns a value in [0, 1] for
\* every event sequence and every window_size >= 0.
C13_AnxietyInUnitInterval ==
    (probe.called /\ probe.window_size >= 0)
    => /\ ~probe.anxiety.raised
       /\ 0 <= probe.anxiety.num
       /\ probe.anxiety.num <= probe.anxiety.den

(* ------------------- token counts and reset analysis ------------------ *)
\* text lengths: every short text, and texts around 0.9 * MAX_TOKENS tokens
TextLens == 0..MaxTextLen \cup {460799, 460800, 460803, 460804, 460807, 512000, 600000}

NoAnalysis == [tokens |-> -1, max_tokens |-> -1, pressure |-> [num |-> 0, den |-> 1],
               should_reset |-> FALSE]

analyze_entropy_at_threshold(text_len) ==
    LET tokens == count_tokens(text_len)
    IN [tokens |-> tokens, max_tokens |-> MAX_TOKENS,
        pressure |-> [num |-> tokens, den |-> MAX_TOKENS],
        should_reset |-> 10 * tokens >= 9 * MAX_TOKENS]

\* POST /api/v1/entropy/analyze: the response for a text of that length
analyze_entropy(text_len) ==
    LET tokens == count_tokens(text_len)
    IN [tokens |-> tokens, max_tokens |-> MAX_TOKENS,
        pressure |-> [num |-> tokens, den |-> MAX_TOKENS],
        should_reset |-> 10 * tokens > 9 * MAX_TOKENS]

\* a service without tokenizer and two texts, a and b, to be measured
InitTokens ==
    /\ log_entries = <<>>
    /\ wisdom_items = <<>>
    /\ current_trace_id = None
    /\ spans = 0
    /\ clock = 0
    /\ llm = TRUE /\ use_llm = FALSE /\ row_order = "asc"
    /\ returned_for = [t \in KnownTraces |-> 0]
    /\ last = NoResponse
    /\ calls = [c \in Threads |-> IdleCall]
    /\ probe \in [counted : {FALSE}, analyzed : {FALSE}, text_a : TextLens,
                   text_b : TextLens, tokens_a : {-1}, tokens_b : {-1},
                   response : {NoAnalysis}]

\* service.count_tokens(a) and service.count_tokens(b)
CallCountTokens ==
    /\ ~probe.counted
    /\ probe' = [probe EXCEPT !.counted = TRUE,
                              !.tokens_a = count_tokens(probe.text_a),
                              !.tokens_b = count_tokens(probe.text_b)]
    /\ UNCHANGED <<log_entries, wisdom_items, current_trace_id, spans, clock, config,
                   returned_for, last, calls>>

\* the reset-analysis request for text a
CallAnalyzeEntropy ==
    /\ ~probe.analyzed
    /\ probe' = [probe EXCEPT !.analyzed = TRUE,
                              !.response = analyze_entropy(probe.text_a)]
    /\ UNCHANGED <<log_entries, wisdom_items, current_trace_id, spans, clock, config,
                   returned_for, last, calls>>

NextTokens == CallCountTokens \/ CallAnalyzeEntropy

SpecTokens == InitTokens /\ [][NextTokens]_vars

\* C25: without tokenizer, count_tokens(text) = ceil(len(text) / 4) for every
\* text.
C25_FallbackIsCeiling ==
    probe.counted => probe.tokens_a = (probe.text_a + 3) \div 4

\* C26: without tokenizer, count_tokens is monotonic non-decreasing in the
\* text length, never negative, and 0 for the empty text.
C26_CountIsMonotonic ==
    probe.counted
    => /\ probe.text_a <= probe.text_b => probe.tokens_a <= probe.tokens_b
       /\ probe.tokens_a >= 0
       /\ probe.text_a = 0 => probe.tokens_a = 0

\* C26 witness: a longer text that counts more tokens than a shorter,
\* non-empty one
C26_Witness ==
    /\ probe.counted
    /\ 0 < probe.text_a /\ probe.text_a < probe.text_b
    /\ probe.tokens_a < probe.tokens_b

\* the empty text and two texts of equal count are measured as well
C26_OtherCases ==
    /\ probe.counted
    /\ probe.text_a = 0 /\ probe.tokens_a = 0
    /\ probe.text_b = 3 /\ probe.tokens_b = 0

\* C27: the reset-analysis response carries tokens = count_tokens(text),
\* max_tokens = MAX_TOKENS, pressure = tokens / MAX_TOKENS, and the
\* should_reset that EntropyService.should_reset gives for that token count
\* and an empty event window: true exactly when tokens > 0.9 * MAX_TOKENS.
C27_AnalyzeMatchesShouldReset ==
    probe.analyzed
    => LET tokens == count_tokens(probe.text_a)
           r == probe.response
       IN /\ r.tokens = tokens
          /\ r.max_tokens = MAX_TOKENS
          /\ r.pressure = [num |-> tokens, den |-> MAX_TOKENS]
          /\ r.should_reset = should_reset(tokens, <<>>)
          /\ r.should_reset <=> 10 * tokens > 9 * MAX_TOKENS

\* C27 witness: a text of exactly 0.9 * MAX_TOKENS tokens is not reset
C27_Witness ==
    /\ probe.analyzed
    /\ probe.response.tokens = 115200
    /\ ~probe.response.should_reset

\* one token more is
C27_OtherCases ==
    /\ probe.analyzed
    /\ probe.response.tokens = 115201
    /\ probe.response.should_reset

(* ------------------- direct heuristic distillations ------------------- *)
CardTraceId == <<"0", "1", "2", "3", "4", "5", "6", "7", "8", "9">>

\* the events of one trace: two loggers, a padded and an overlong message,
\* timestamps that may tie
CardEvents == [level : {"INFO", "error", "WARNING"},
               logger_name : {"ext.plugin", AgentLogger},
               message : {Text("ok", 1, 2), Text("stack", 0, 121)},
               trace_id : {CardTraceId}, timestamp : {0, 2}]

\* a store that holds the ingested events of one trace and no item, in
\* heuristic mode, and the distill_trace call to come
InitHeuristic ==
    /\ log_entries = <<>>
    /\ wisdom_items = <<>>
    /\ current_trace_id = None
    /\ spans = 0
    /\ clock = 0
    /\ llm = TRUE /\ use_llm = FALSE
    /\ row_order \in {"asc", "desc"}
    /\ returned_for = [t \in KnownTraces |-> 0]
    /\ last = NoResponse
    /\ calls = [c \in Threads |-> IdleCall]
    /\ probe \in [called : {FALSE}, tokens : {0}, levels : {<<>>},
                   window_size : {DefaultWindow},
                   events : UNION {[1..n -> CardEvents] : n \in 0..MaxCardLogs},
                   result : {FALSE}, anxiety : {NoAnxiety}, card : {<<>>}]

\* odysseus.distill_trace(trace_id) on that store: the item it stores, if any
CallDistill ==
    /\ ~probe.called
    /\ LET d == Distill(<<>>, IngestRows(<<>>, probe.events, 0), CardTraceId,
                        FALSE, TRUE, TRUE)
       IN probe' = [probe EXCEPT !.called = TRUE,
                                 !.card = IF d.returned = "item"
                                          THEN <<d.items[d.item]>> ELSE <<>>]
    /\ UNCHANGED <<log_entries, wisdom_items, current_trace_id, spans, clock, config,
                   returned_for, last, calls>>

NextHeuristic == CallDistill

SpecHeuristic == InitHeuristic /\ [][NextHeuristic]_vars

\* the position of the trace's last event: the latest timestamp, ties broken
\* by the database's row order
LastEvent(events) ==
    CHOOSE i \in 1..Len(events) :
        \A j \in 1..Len(events) \ {i} :
            \/ events[j].timestamp < events[i].timestamp
            \/ /\ events[j].timestamp = events[i].timestamp
               /\ IF row_order = "asc" THEN j < i ELSE j > i

Timestamps(events) == {events[i].timestamp : i \in 1..Len(events)}

Elapsed(events) ==
    (CHOOSE t \in Timestamps(events) : \A u \in Timestamps(events) : u <= t)
    - (CHOOSE t \in Timestamps(events) : \A u \in Timestamps(events) : t <= u)

\* C20: in heuristic mode the item distill_trace stores for a trace with events
\* is a failure card (title "Failure Pattern Detected in ...", tags
\* bug,error,failure, content with the number of ERROR events and the last
\* event's stripped message cut to 120 characters) exactly when the trace has
\* an ERROR event, and otherwise a success card (title "Successful
\* Execution: ...", tags success,performance, content with the number of
\* events and the time between the first and the last event).
C20_HeuristicCardByErrors ==
    (probe.called /\ probe.events # <<>>)
    => /\ probe.card # <<>>
       /\ LET card == probe.card[1]
              errors == Cardinality({i \in 1..Len(probe.events) :
                                        probe.events[i].level \in {"ERROR", "error"}})
              final == probe.events[LastEvent(probe.events)].message
          IN IF errors > 0
             THEN /\ card.title[1] = "Failure Pattern Detected in"
                  /\ card.tags = "bug,error,failure"
                  /\ card.content.count = errors
                  /\ card.content.detail.text = final.text
                  /\ card.content.detail.pad = 0
                  /\ card.content.detail.len = Min(final.len, 120)
             ELSE /\ card.title[1] = "Successful Execution:"
                  /\ card.tags = "success,performance"
                  /\ card.content.count = Len(probe.events)
                  /\ card.content.duration = Elapsed(probe.events)

\* C20 witness: an ERROR event followed by a later INFO event with an overlong
\* message gives a failure card that counts one error and quotes 120
\* characters of the INFO event's message
C20_Witness ==
    /\ probe.called
    /\ Len(probe.events) = 2
    /\ probe.events[1].level = "error" /\ probe.events[1].timestamp = 0
    /\ probe.events[2].level = "INFO" /\ probe.events[2].timestamp = 2
    /\ probe.events[2].message.len = 121
    /\ probe.card # <<>>
    /\ probe.card[1].tags = "bug,error,failure"
    /\ probe.card[1].content.count = 1
    /\ probe.card[1].content.detail.len = 120

\* the success card of a trace with WARNING events only is reached as well
C20_OtherCases ==
    /\ probe.called
    /\ Len(probe.events) = 2
    /\ \A i \in 1..2 : probe.events[i].level = "WARNING"
    /\ probe.events[1].timestamp = 2 /\ probe.events[2].timestamp = 0
    /\ probe.card # <<>>
    /\ probe.card[1].tags = "success,performance"
    /\ probe.card[1].content.duration = 2

\* the position of the trace's chronologically first event: the earliest
\* timestamp, ties broken by the database's row order
FirstEvent(events) ==
    CHOOSE i \in 1..Len(events) :
        \A j \in 1..Len(events) \ {i} :
            \/ events[i].timestamp < events[j].timestamp
            \/ /\ events[i].timestamp = events[j].timestamp
               /\ IF row_order = "asc" THEN i < j ELSE i > j

\* C29: for a trace whose events come from more than one logger, the logger
\* named in the heuristic title is the logger of the trace's chronologically
\* first event.
C29_TitleNamesFirstLogger ==
    (/\ probe.called
     /\ probe.card # <<>>
     /\ \E i, j \in 1..Len(probe.events) :
           probe.events[i].logger_name # probe.events[j].logger_name)
    => probe.card[1].title[2] = probe.events[FirstEvent(probe.events)].logger_name

(* --------------------------- trace log queries ------------------------- *)
\* ORDER BY timestamp, id (or both descending) over a set of rows
Ordered(rows, order) ==
    LET Before(a, b) ==
            IF order = "desc"
            THEN a.timestamp > b.timestamp \/ (a.timestamp = b.timestamp /\ a.id > b.id)
            ELSE a.timestamp < b.timestamp \/ (a.timestamp = b.timestamp /\ a.id < b.id)
    IN [i \in 1..Cardinality(rows) |->
           CHOOSE r \in rows : Cardinality({x \in rows : Before(x, r)}) = i - 1]

get_trace_logs_unreversed(logs, trace_id, start, end, limit, order) ==
    LET hits == {logs[i] : i \in {j \in 1..Len(logs) :
                     /\ logs[j].trace_id = trace_id
                     /\ start = -1 \/ logs[j].timestamp >= start
                     /\ end = -1 \/ logs[j].timestamp < end}}
        sorted == Ordered(hits, order)
    IN IF limit = -1 THEN sorted ELSE Prefix(sorted, limit)

\* GET /api/v1/telemetry/traces/{trace_id}/logs; start, end, limit -1: not given
get_trace_logs(logs, trace_id, start, end, limit, order) ==
    LET hits == {logs[i] : i \in {j \in 1..Len(logs) :
                     /\ logs[j].trace_id = trace_id
                     /\ start = -1 \/ logs[j].timestamp >= start
                     /\ end = -1 \/ logs[j].timestamp < end}}
        sorted == Ordered(hits, order)
        results == IF limit = -1 THEN sorted ELSE Prefix(sorted, limit)
    IN IF order = "desc" THEN Reverse(results) ELSE results

\* a store holding the ingested events of two traces, with timestamps that
\* may tie, and the query to come
InitTraceLogs ==
    /\ wisdom_items = <<>>
    /\ current_trace_id = None
    /\ spans = 0
    /\ clock = 0
    /\ llm = TRUE /\ use_llm = FALSE /\ row_order = "asc"
    /\ returned_for = [t \in KnownTraces |-> 0]
    /\ last = NoResponse
    /\ calls = [c \in Threads |-> IdleCall]
    /\ \E events \in UNION {[1..n -> [level : {"INFO"}, logger_name : {"ext.plugin"},
                                       message : {Text("ok", 0, 2)},
                                       trace_id : {<<"a">>, <<"b">>},
                                       timestamp : {0, 1, 2}]] : n \in 0..MaxQueryLogs} :
          log_entries = IngestRows(<<>>, events, 0)
    /\ probe \in [called : {FALSE}, trace_id : {<<"a">>}, start : {-1, 1}, end : {-1, 2},
                   limit : {-1, 0, 1, 2}, order : {"asc", "desc"}, logs : {<<>>}]

CallGetTraceLogs ==
    /\ ~probe.called
    /\ probe' = [probe EXCEPT !.called = TRUE,
                              !.logs = get_trace_logs(log_entries, probe.trace_id,
                                           probe.start, probe.end, probe.limit, probe.order)]
    /\ UNCHANGED <<log_entries, wisdom_items, current_trace_id, spans, clock, config,
                   returned_for, last, calls>>

SpecTraceLogs == InitTraceLogs /\ [][CallGetTraceLogs]_vars

\* the stored events of the requested trace inside the time window
InWindow ==
    {log_entries[i] : i \in {j \in 1..Len(log_entries) :
        /\ log_entries[j].trace_id = probe.trace_id
        /\ probe.start # -1 => log_entries[j].timestamp >= probe.start
        /\ probe.end # -1 => log_entries[j].timestamp < probe.end}}

Earlier(a, b) ==
    a.timestamp < b.timestamp \/ (a.timestamp = b.timestamp /\ a.id < b.id)

\* C28: get_trace_logs returns only events of the requested trace (inside the
\* time window), listed in ascending (timestamp, id) order; with limit n it
\* returns n of them (all, if fewer): the n earliest when order=asc, the n
\* latest when order=desc.
C28_TraceLogsOrdered ==
    probe.called
    => LET r == probe.logs
           got == {r[i] : i \in 1..Len(r)}
       IN /\ got \subseteq InWindow
          /\ \A i, j \in 1..Len(r) : i < j => Earlier(r[i], r[j])
          /\ Len(r) = IF probe.limit = -1 THEN Cardinality(InWindow)
                       ELSE Min(probe.limit, Cardinality(InWindow))
          /\ \A x \in InWindow \ got : \A y \in got :
                IF probe.order = "asc" THEN Earlier(y, x) ELSE Earlier(x, y)

\* C28 witness: order=desc with limit 2 over three events of the trace, two
\* of them with the same timestamp, returns the two latest in ascending order
C28_Witness ==
    /\ probe.called
    /\ probe.order = "desc" /\ probe.limit = 2 /\ probe.start = -1 /\ probe.end = -1
    /\ Cardinality(InWindow) = 3
    /\ Len(probe.logs) = 2
    /\ probe.logs[1].timestamp = probe.logs[2].timestamp
    /\ probe.logs[1].id < probe.logs[2].id
    /\ \E x \in InWindow : x.timestamp < probe.logs[1].timestamp /\ x.id > probe.logs[2].id

\* order=asc with limit 1 inside a time window that holds two events of the
\* trace and an event of another trace
C28_OtherCases ==
    /\ probe.called
    /\ probe.order = "asc" /\ probe.limit = 1 /\ probe.start = 1 /\ probe.end = 2
    /\ Len(probe.logs) = 1
    /\ \E i \in 1..Len(log_entries) :
          log_entries[i].trace_id # probe.trace_id /\ log_entries[i].timestamp = 1
    /\ Cardinality(InWindow) = 2

(* ------------------------ the summarizer's prompt ---------------------- *)
\* distill_trace_with_llm(..., max_logs=200, max_chars=18_000)
max_logs == 200
max_chars == 18000

\* the characters of a rendered line before the message, for an ingested
\* event of trace "a" with level INFO, logger ext.plugin, a timestamp without
\* microseconds and no span: "time=... | level=INFO | ... | msg="
CompactFieldsLen == 131

\* a log message is modelled by its length and by the value of the secret it
\* assigns: "" for none, else the message starts with "password=<value>".
\* The rendered line: its length, the secret value it shows and the number
\* of characters before that value; log.message is copied as it is
log_to_compact_text(log) ==
    [len |-> CompactFieldsLen + log.message.len, secret |-> log.message.secret,
     secret_at |-> CompactFieldsLen + 9]

\* the for loop of _safe_join_lines: out and total after the lines left
RECURSIVE SafeJoinLoop(_, _, _, _)
SafeJoinLoop(lines, limit_chars, out, total) ==
    IF lines = <<>> THEN out
    ELSE LET line == Head(lines)
             remaining == limit_chars - total
             chunk == IF line.len <= remaining THEN line
                      ELSE [line EXCEPT !.len = remaining,
                                        !.secret = IF remaining > line.secret_at
                                                   THEN line.secret ELSE ""]
         IN IF line.len = 0 THEN SafeJoinLoop(Tail(lines), limit_chars, out, total)
            ELSE IF remaining <= 0 THEN out
            ELSE IF total + chunk.len >= limit_chars THEN Append(out, chunk)
            ELSE SafeJoinLoop(Tail(lines), limit_chars, Append(out, chunk),
                              total + chunk.len)

\* len("\n".join(out))
RECURSIVE JoinedLen(_)
JoinedLen(out) ==
    IF out = <<>> THEN 0
    ELSE Head(out).len + (IF Len(out) > 1 THEN 1 ELSE 0) + JoinedLen(Tail(out))

\* _safe_join_lines: the chunks joined and the length of the joined text
safe_join_lines(lines, limit_chars) ==
    LET out == SafeJoinLoop(lines, limit_chars, <<>>, 0)
    IN [chunks |-> out, len |-> JoinedLen(out)]

NoPrompt == [sent |-> FALSE, log_count |-> 0, lines |-> <<>>, payload |-> <<>>, len |-> 0]

\* distill_trace_with_llm up to agent.run_sync: the logs part of the prompt
\* for a trace, with the rendered lines it was cut from
distill_prompt(logs, raw, logs_cap, chars_cap) ==
    LET trace_id == Strip(raw)
        history == Prefix(TraceLogs(logs, trace_id), logs_cap)
        lines == [i \in 1..Len(history) |-> log_to_compact_text(history[i])]
        payload == safe_join_lines(lines, chars_cap)
    IN IF trace_id = <<>> \/ history = <<>> THEN NoPrompt
       ELSE [sent |-> TRUE, log_count |-> Len(history), lines |-> lines,
             payload |-> payload.chunks, len |-> payload.len]

\* the same events with other secret values
Twin(logs) ==
    [i \in 1..Len(logs) |->
        [logs[i] EXCEPT !.message.secret =
            IF @ = "" THEN "" ELSE IF @ = "hunter2" THEN "letmein" ELSE "hunter2"]]

\* a store holding the ingested events of one trace, in time order, with
\* messages of several lengths, and the limits of the call to come: the
\* defaults, or a max_logs of 1
InitPrompt ==
    /\ wisdom_items = <<>>
    /\ current_trace_id = None
    /\ spans = 0
    /\ clock = 0
    /\ llm = TRUE /\ use_llm = TRUE /\ row_order = "asc"
    /\ returned_for = [t \in KnownTraces |-> 0]
    /\ last = NoResponse
    /\ calls = [c \in Threads |-> IdleCall]
    /\ \E messages \in UNION {[1..n -> [len : {16, 8869, 20000},
                                         secret : {"", "hunter2", "letmein"}]] :
                                 n \in 0..MaxPromptLogs} :
          /\ log_entries = IngestRows(<<>>, [i \in 1..Len(messages) |->
                                [level |-> "INFO", logger_name |-> "ext.plugin",
                                 message |-> messages[i], trace_id |-> <<"a">>,
                                 timestamp |-> i]], 0)
    /\ probe \in [called : {FALSE}, logs_cap : {1, max_logs}, chars_cap : {max_chars},
                   prompt : {NoPrompt}, twin : {NoPrompt}]

\* distill_trace_with_llm("a", max_logs=..., max_chars=...) on that store,
\* and on its twin
CallDistillPrompt ==
    /\ ~probe.called
    /\ probe' = [probe EXCEPT
                    !.called = TRUE,
                    !.prompt = distill_prompt(log_entries, <<"a">>, probe.logs_cap,
                                              probe.chars_cap),
                    !.twin = distill_prompt(Twin(log_entries), <<"a">>, probe.logs_cap,
                                            probe.chars_cap)]
    /\ UNCHANGED <<log_entries, wisdom_items, current_trace_id, spans, clock, config,
                   returned_for, last, calls>>

SpecPrompt == InitPrompt /\ [][CallDistillPrompt]_vars

\* C21: the log text rendered for the summarizer holds at most max_logs events
\* and at most max_chars characters, and is a prefix of the trace's rendered
\* lines in time order: every line but the last is whole, the last may be cut.
C21_PromptWithinBudget ==
    (probe.called /\ probe.prompt.sent)
    => LET p == probe.prompt
       IN /\ p.log_count <= probe.logs_cap
          /\ Len(p.payload) <= probe.logs_cap
          /\ p.len <= probe.chars_cap
          /\ Len(p.payload) <= Len(p.lines)
          /\ \A i \in 1..Len(p.payload) :
                /\ p.payload[i].len <= p.lines[i].len
                /\ i < Len(p.payload) => p.payload[i] = p.lines[i]

\* C22: the prompt sent to the summarizer shows no secret value: two traces
\* that differ only in the secret values of their messages give the same
\* prompt.
C22_PromptHidesSecrets ==
    (probe.called /\ probe.prompt.sent)
    => /\ \A i \in 1..Len(probe.prompt.payload) : probe.prompt.payload[i].secret = ""
       /\ probe.prompt = probe.twin

(* ------------------------- overlapping requests ------------------------ *)
\* FastAPI serves the def endpoints from a thread pool: the requests of two
\* threads interleave at every access to the database or to the shared agent
OtherVars == <<config, returned_for, last, probe>>

Set(c, call) == calls' = [calls EXCEPT ![c] = call]

\* run_task entry: an empty instruction returns at once; otherwise the span
\* begins and its trace id is stored in the shared agent (agent.py 343-351)
BeginTask(c, instruction, consolidate) ==
    LET stripped == StripInstruction(instruction)
    IN /\ calls[c].pc = "idle"
       /\ calls[c].served < MaxServed
       /\ IF InstructionLen(stripped) = 0
          THEN /\ Set(c, [calls[c] EXCEPT !.pc = "done", !.op = "task",
                             !.consolidate = consolidate,
                             !.result = EmptyInstructionResult])
               /\ UNCHANGED <<current_trace_id, spans>>
          ELSE /\ Writes + 1 <= MaxWrites
               /\ spans' = spans + 1
               /\ current_trace_id' = TraceIdOf(spans + 1)
               /\ Set(c, [calls[c] EXCEPT !.pc = "memory", !.op = "task",
                             !.call = spans + 1, !.consolidate = consolidate,
                             !.instruction_len = InstructionLen(stripped)])
       /\ UNCHANGED <<log_entries, wisdom_items, clock, OtherVars>>

\* get_all_wisdom(limit=6) and _format_wisdom (agent.py 356-357)
LoadMemory(c, memory_len) ==
    /\ calls[c].pc = "memory"
    /\ memory_len \in MemoryLens(wisdom_items)
    /\ Set(c, [calls[c] EXCEPT !.pc = "first", !.memory_len = memory_len])
    /\ UNCHANGED <<log_entries, wisdom_items, current_trace_id, spans, clock, OtherVars>>

\* the first _save_agent_log: agent.nollm without an LLM, else agent.start
\* (agent.py 368-372, 389-393), under the agent's current trace id
SaveFirst(c) ==
    /\ calls[c].pc = "first"
    /\ log_entries' =
          IF llm
          THEN SaveAgentLog(log_entries, current_trace_id, "agent.start", "INFO",
                            clock, calls[c].call)
          ELSE SaveAgentLog(log_entries, current_trace_id, "agent.nollm", "WARN",
                            clock, calls[c].call)
    /\ clock' = clock + 1
    /\ Set(c, [calls[c] EXCEPT !.pc = IF llm THEN "act" ELSE "return_nollm"])
    /\ UNCHANGED <<wisdom_items, current_trace_id, spans, OtherVars>>

\* llm.run_sync answers or raises, and the agent.done or agent.error event is
\* saved under the agent's current trace id (agent.py 394-403)
SaveSecond(c, act_ok) ==
    /\ calls[c].pc = "act"
    /\ log_entries' =
          IF act_ok
          THEN SaveAgentLog(log_entries, current_trace_id, "agent.done", "INFO",
                            clock, calls[c].call)
          ELSE SaveError(log_entries, current_trace_id, clock, calls[c].call)
    /\ clock' = clock + 1
    /\ Set(c, [calls[c] EXCEPT !.pc = IF act_ok THEN "return_stable" ELSE "return_error"])
    /\ UNCHANGED <<wisdom_items, current_trace_id, spans, OtherVars>>

\* run_agent_task after run_task returned: distil the result's trace id when asked
AfterRun(call, result) ==
    IF call.consolidate /\ HasTraceId(result)
    THEN [call EXCEPT !.pc = "check", !.raw = result.trace_id, !.result = result]
    ELSE [call EXCEPT !.pc = "done", !.result = result]

\* the result dictionary, built with the agent's current trace id
\* (agent.py 373-386, 404-409, 420-427)
ReturnTask(c, answer_len) ==
    /\ calls[c].pc \in {"return_nollm", "return_stable", "return_error"}
    /\ Set(c, AfterRun(calls[c],
              CASE calls[c].pc = "return_nollm" ->
                     NoLlmResult(current_trace_id, calls[c].instruction_len,
                                 calls[c].memory_len)
                [] calls[c].pc = "return_stable" ->
                     StableResult(current_trace_id, calls[c].instruction_len,
                                  calls[c].memory_len, answer_len)
                [] OTHER -> ErrorResult(current_trace_id)))
    /\ UNCHANGED <<log_entries, wisdom_items, current_trace_id, spans, clock, OtherVars>>

\* consolidate_memory entry: distill_trace(request.trace_id) with the default overwrite
BeginConsolidate(c, raw) ==
    /\ calls[c].pc = "idle"
    /\ calls[c].served < MaxServed
    /\ Set(c, [calls[c] EXCEPT !.pc = "check", !.op = "consolidate", !.raw = raw])
    /\ UNCHANGED <<log_entries, wisdom_items, current_trace_id, spans, clock, OtherVars>>

\* distill_trace up to the existence check (odysseus.py 31-53)
CheckExisting(c) ==
    LET trace_id == Strip(calls[c].raw)
        existing == FindExisting(wisdom_items, trace_id)
    IN /\ calls[c].pc = "check"
       /\ Set(c, IF BlankTrace(trace_id)
                 THEN [calls[c] EXCEPT !.pc = "done", !.returned = "None"]
                 ELSE IF ReturnsExisting(FALSE, existing)
                 THEN [calls[c] EXCEPT !.pc = "done", !.returned = "item",
                                       !.item = existing]
                 ELSE [calls[c] EXCEPT !.pc = "fetch"])
       /\ UNCHANGED <<log_entries, wisdom_items, current_trace_id, spans, clock, OtherVars>>

\* the trace's log events are read and summarised (odysseus.py 55-110)
FetchLogs(c, llm_ok) ==
    LET trace_id == Strip(calls[c].raw)
        history == TraceLogs(log_entries, trace_id)
    IN /\ calls[c].pc = "fetch"
       /\ Set(c, IF NotFound(history)
                 THEN [calls[c] EXCEPT !.pc = "done", !.returned = "None"]
                 ELSE IF use_llm /\ ~llm_ok
                 THEN [calls[c] EXCEPT !.pc = "done", !.returned = "raised"]
                 ELSE [calls[c] EXCEPT !.pc = "insert",
                                       !.card = <<Card(history, trace_id)>>])
       /\ UNCHANGED <<log_entries, wisdom_items, current_trace_id, spans, clock, OtherVars>>

\* session.add(wisdom); session.commit(); session.refresh(wisdom)
\* (odysseus.py 60-69, 112-121)
InsertItem(c) ==
    LET wisdom == NewItem(wisdom_items, Strip(calls[c].raw), calls[c].card[1])
    IN /\ calls[c].pc = "insert"
       /\ Writes + 1 <= MaxWrites
       /\ wisdom_items' = StoreItem(wisdom_items, wisdom)
       /\ Set(c, [calls[c] EXCEPT !.pc = "done", !.returned = "item",
                                  !.item = wisdom.id, !.card = <<>>])
       /\ UNCHANGED <<log_entries, current_trace_id, spans, clock, OtherVars>>

\* the response is sent and the thread takes the next request
Respond(c) ==
    /\ calls[c].pc = "done"
    /\ Set(c, [IdleCall EXCEPT !.served = calls[c].served + 1])
    /\ UNCHANGED <<log_entries, wisdom_items, current_trace_id, spans, clock, OtherVars>>

ConcTraceIds == {<<"a">>, <<"1">>}

ConcInstructions == {[pad |-> 1, core |-> 10]}

NextConc ==
    \/ Ingest
    \/ \E c \in Threads :
          \/ \E instruction \in ConcInstructions, consolidate \in BOOLEAN :
                BeginTask(c, instruction, consolidate)
          \/ \E memory_len \in MemoryLens(wisdom_items) : LoadMemory(c, memory_len)
          \/ SaveFirst(c)
          \/ \E act_ok \in ActOutcomes : SaveSecond(c, act_ok)
          \/ \E answer_len \in AnswerLens : ReturnTask(c, answer_len)
          \/ \E raw \in ConcTraceIds : BeginConsolidate(c, raw)
          \/ CheckExisting(c)
          \/ \E llm_ok \in SummarizerOutcomes : FetchLogs(c, llm_ok)
          \/ InsertItem(c)
          \/ Respond(c)

\* the database's row order plays no part here
InitConc == Init /\ row_order = "asc"

SpecConc == InitConc /\ [][NextConc]_vars

\* C2: when distill_trace(t, overwrite=False) calls for one trace overlap, the
\* trace has at most one WisdomItem and all callers are returned the same item
\* without an error.
C2_OverlappingDistillSingleItem ==
    /\ \A t \in KnownTraces : Cardinality(ItemsOf(wisdom_items, t)) < 2
    /\ \A c, d \in Threads :
          (/\ calls[c].pc = "done" /\ calls[d].pc = "done"
           /\ calls[c].returned = "item" /\ calls[d].returned = "item"
           /\ Strip(calls[c].raw) = Strip(calls[d].raw))
          => calls[c].item = calls[d].item

\* C6: overlapping run_task calls on the shared agent each store their log
\* events under, and return, the trace id of their own span.
C6_OwnTraceId ==
    /\ \A i \in 1..Len(log_entries) :
          log_entries[i].call # 0 => log_entries[i].trace_id = TraceIdOf(log_entries[i].call)
    /\ \A c \in Threads :
          (calls[c].op = "task" /\ calls[c].result.has_trace)
          => calls[c].result.trace_id = TraceIdOf(calls[c].call)

\* C16: every run_task call that got past the empty-instruction check has a
\* non-empty trace id of its own, different from the one of every other call,
\* and the trace id in its result is the one under which all of its log
\* events are stored.
C16_FreshTraceIdKeptByCall ==
    /\ \A c, d \in Threads :
          (calls[c].call # 0 /\ calls[d].call # 0 /\ c # d)
          => /\ TraceIdOf(calls[c].call) # <<>>
             /\ TraceIdOf(calls[c].call) # TraceIdOf(calls[d].call)
    /\ \A c \in Threads :
          (calls[c].op = "task" /\ calls[c].result.has_trace)
          => \A i \in 1..Len(log_entries) :
                log_entries[i].call = calls[c].call
                => log_entries[i].trace_id = calls[c].result.trace_id

(* --------------------------- recall and search ------------------------ *)
\* .order_by(WisdomItem.created_at.desc()): items are created in id order
RECURSIVE NewestFirst(_)
NewestFirst(items) ==
    IF items = <<>> THEN <<>>
    ELSE <<items[Len(items)]>> \o NewestFirst(SubSeq(items, 1, Len(items) - 1))

\* .limit(limit)
Limit(rows, limit) == SubSeq(rows, 1, IF limit < Len(rows) THEN limit ELSE Len(rows))

IdsOf(rows) == [i \in 1..Len(rows) |-> rows[i].id]

\* OdysseusService.get_all_wisdom
get_all_wisdom(items, limit) == IdsOf(Limit(NewestFirst(items), limit))

\* title, tags or content contains the needle: the queries are tag words
Contains(item, needle) ==
    \/ needle = "bug" /\ item.tags = "bug,error,failure"
    \/ needle = "success" /\ item.tags = "success,performance"
    \/ needle = "llm" /\ item.tags = "llm"

\* OdysseusService.search_wisdom; the query is its padding and its word
search_wisdom(items, query, limit) ==
    IF query.word = "" THEN <<>>
    ELSE IdsOf(Limit(SelectSeq(NewestFirst(items), LAMBDA w : Contains(w, query.word)),
                     limit))

\* OdysseusService.get_wisdom_by_trace: the id of the item, 0 for None
get_wisdom_by_trace(items, raw) ==
    IF BlankTrace(Strip(raw)) THEN 0 ELSE FindExisting(items, Strip(raw))

ReadOnly == <<log_entries, wisdom_items, current_trace_id, spans, clock, config,
              returned_for, calls, probe>>

NoQuery == [given |-> FALSE, pad |-> 0, word |-> ""]

QueryInputs == {NoQuery, [given |-> TRUE, pad |-> 1, word |-> ""],
                [given |-> TRUE, pad |-> 0, word |-> "bug"]}

LimitInputs == {1, 3}

\* GET /api/v1/memory/recall: a query that is not empty is searched for
recall_memory(limit, query) ==
    /\ last' = [NoResponse EXCEPT
                   !.op = "recall", !.http = 200, !.limit = limit,
                   !.items = IF query.given /\ query.pad + Len(query.word) > 0
                             THEN search_wisdom(wisdom_items, query, limit)
                             ELSE get_all_wisdom(wisdom_items, limit)]
    /\ UNCHANGED ReadOnly

\* a direct call of OdysseusService.get_wisdom_by_trace
WisdomByTrace(raw) ==
    /\ last' = [NoResponse EXCEPT !.op = "by_trace", !.raw = raw,
                   !.item = get_wisdom_by_trace(wisdom_items, raw)]
    /\ UNCHANGED ReadOnly

Recall == \E limit \in LimitInputs, query \in QueryInputs : recall_memory(limit, query)

ByTrace == \E raw \in {<<"a">>, <<" ", "a", " ">>, <<" ">>} : WisdomByTrace(raw)

RecallInstructions == {[pad |-> 1, core |-> 10]}

\* POST /api/v1/agent/task with a short instruction
TaskBrief ==
    \E instruction \in RecallInstructions, consolidate \in BOOLEAN :
      \E act_ok \in ActInputs(instruction), answer_len \in AnswerLens,
         llm_ok \in SummarizerInputs(instruction, consolidate) :
        \E memory_len \in MemoryInputs(instruction, act_ok) :
          run_agent_task(instruction, consolidate, act_ok, answer_len, memory_len, llm_ok,
                         AllCommit, TRUE)

NextRecall == Ingest \/ Consolidate(BOOLEAN) \/ TaskBrief \/ Recall \/ ByTrace

\* recall is studied without execution backend: tasks return the stub
InitRecall == Init /\ llm = FALSE

\* requests and service calls, one at a time
SpecRecall == InitRecall /\ [][NextRecall]_vars

\* C19: no step removes a WisdomItem id from the store, and a step that is not
\* a distill_trace call with overwrite=true leaves every stored item's fields
\* as they were.
C19_ItemsOnlyGrow ==
    [][/\ Ids(wisdom_items) \subseteq Ids(wisdom_items')
       /\ ~last'.overwrite
          => \A i \in 1..Len(wisdom_items) :
                \E j \in 1..Len(wisdom_items') : wisdom_items'[j] = wisdom_items[i]]_vars

\* C19 witness: a search answered with the one failure card while the store
\* holds two items
C19_Witness ==
    /\ last.op = "recall"
    /\ Len(last.items) = 1
    /\ Len(wisdom_items) = 2
    /\ wisdom_items[last.items[1]].tags = "bug,error,failure"

\* C30: once a trace has a newer item made with overwrite=True, every later
\* distill_trace(t, overwrite=False) and get_wisdom_by_trace(t) returns the
\* newest item of the trace, never a superseded one.
C30_ReturnsNewestItem ==
    (/\ last.op \in {"consolidate", "by_trace"}
     /\ ~last.overwrite
     /\ last.item # 0)
    => \A i \in ItemsOf(wisdom_items, Strip(last.raw)) : i <= last.item

(* -------------------------- persistence failures ----------------------- *)
\* which of the up to three session.commit() calls of run_task succeed: all,
\* all but one, or none from some call on
CommitOutcomes == {AllCommit, <<FALSE, TRUE, TRUE>>, <<TRUE, FALSE, TRUE>>,
                   <<TRUE, FALSE, FALSE>>, <<FALSE, FALSE, FALSE>>}

FaultInstructions == {[pad |-> 1, core |-> 10]}

\* POST /api/v1/memory/consolidate while the store may refuse the commit
ConsolidateFault ==
    \E raw \in TraceIdInputs, llm_ok \in SummarizerOutcomes, commit_ok \in BOOLEAN :
        consolidate_memory(raw, FALSE, llm_ok, commit_ok)

\* POST /api/v1/agent/task while the store may refuse any of the commits
TaskFault ==
    \E instruction \in FaultInstructions, consolidate \in BOOLEAN, act_ok \in ActOutcomes,
       answer_len \in AnswerLens, memory_len \in MemoryLens(wisdom_items),
       llm_ok \in SummarizerOutcomes, commits \in CommitOutcomes, commit_ok \in BOOLEAN :
        run_agent_task(instruction, consolidate, act_ok, answer_len, memory_len, llm_ok,
                       commits, commit_ok)

NextFault == ConsolidateFault \/ TaskFault

\* the database's row order plays no part here
InitFault == Init /\ row_order = "asc"

\* requests served one at a time by a store whose commits may fail
SpecFault == InitFault /\ [][NextFault]_vars

\* C11: a request during which a commit of run_task or distill_trace failed
\* ends with the store failure propagated to the client (HTTP 500), never
\* with a response that reports an execution failure or a success.
C11_StoreFailurePropagates ==
    last.store_failures > 0 => last.http = 500

====
